---- MODULE Spec2Model ----
(***************************************************************************)
(* Exam generation core of english-assistant-pro:                          *)
(*   services/geminiService.ts  (safeParseJSON, callWithFallback,          *)
(*                               DIFFICULTY_RULES, generateExam)           *)
(*   App.tsx                    (handleSaveSettings, the stored settings)  *)
(*                                                                         *)
(* Strings that the code inspects character by character (the service's    *)
(* response texts) are sequences of one-character strings.  Optional       *)
(* values (undefined / null) are sequences of length 0 or 1.               *)
(***************************************************************************)
EXTENDS Integers, Sequences, FiniteSets, TLC

VARIABLES
    storedKey,       \* localStorage 'user_gemini_api_key'  (optional string)
    storedModel,     \* localStorage 'preferred_model'      (optional string)
    envKey,          \* process.env.API_KEY                 (optional string)
    pc,              \* position of the generateExam invocation
    config,          \* generateExam's config argument
    onProgress,      \* generateExam's onProgress argument (behaviour of the callback)
    progress,        \* messages the callback has been called with
    step1Prompt,     \* the stage-1 prompt (optional)
    plan,            \* stage 1's answer (optional)
    step2Prompt,     \* the stage-2 prompt (optional)
    finalResponse,   \* stage 2's answer (optional)
    cwf,             \* the locals of the two callWithFallback calls, by stage
    inFlight,        \* generateContent requests issued and not yet settled
    trace,           \* observable events of the invocation, in program order
    result,          \* value generateExam resolved with (optional)
    error,           \* error generateExam rejected with (optional)
    ptext,           \* safeParseJSON called on its own: argument
    pret,            \* safeParseJSON called on its own: outcome (optional)
    lastFailure,     \* by stage: how the latest generateContent request failed (optional)
    view,            \* App: the view shown, "INPUT", "LOADING" or "RESULT"
    examData,        \* App: the exam kept, a JavaScript value (null at first)
    appError,        \* App: the state named error, the message shown (optional)
    loadingMessage,  \* App: the message of the LOADING view
    gens,            \* App: the handleGenerate calls so far, in the order started
    shownFrom        \* App: which call examData comes from (0: none)

vars == <<storedKey, storedModel, envKey, pc, config, onProgress, progress,
          step1Prompt, plan, step2Prompt, finalResponse, cwf, inFlight, trace,
          result, error, ptext, pret, lastFailure,
          view, examData, appError, loadingMessage, gens, shownFrom>>

\* The state of geminiService.ts and the state of App.
coreVars == <<storedKey, storedModel, envKey, pc, config, onProgress, progress,
              step1Prompt, plan, step2Prompt, finalResponse, cwf, inFlight, trace,
              result, error, ptext, pret, lastFailure>>

appVars == <<view, examData, appError, loadingMessage, gens, shownFrom>>

(***************************************************************************)
(* Optional values and JavaScript truthiness of strings.                   *)
(***************************************************************************)
None == <<>>

Some(x) == <<x>>

\* "s || d" and "if (s)" on an optional TLA string: null, undefined and "" are falsy.
Truthy(o) == o # None /\ o[1] # ""

Min(a, b) == IF a <= b THEN a ELSE b

Max(a, b) == IF a >= b THEN a ELSE b

(***************************************************************************)
(* Characters.                                                             *)
(***************************************************************************)
\* The backtick (U+0060): the lexer of the tools rejects it inside a string.
BT == "BACKTICK"

QT == "\""

SP == " "

NL == "\n"

FF == "\f"

\* White space of the JSON grammar.
JsonWs == {SP, NL, "\t", "\r"}

\* White space String.prototype.trim removes (the part of it in the alphabet).
TrimWs == JsonWs \cup {FF}

Digits == {"0", "1", "2", "3", "4", "5", "6", "7", "8", "9"}

DigitVal(c) ==
    CASE c = "0" -> 0 [] c = "1" -> 1 [] c = "2" -> 2 [] c = "3" -> 3
      [] c = "4" -> 4 [] c = "5" -> 5 [] c = "6" -> 6 [] c = "7" -> 7
      [] c = "8" -> 8 [] c = "9" -> 9

Lower(c) ==
    CASE c = "J" -> "j" [] c = "S" -> "s" [] c = "O" -> "o" [] c = "N" -> "n"
      [] OTHER -> c

Drop(s, n) == SubSeq(s, n + 1, Len(s))

Take(s, n) == SubSeq(s, 1, Min(n, Len(s)))

EndsWith(s, p) == Len(s) >= Len(p) /\ SubSeq(s, Len(s) - Len(p) + 1, Len(s)) = p

LowerAll(s) == [i \in 1..Len(s) |-> Lower(s[i])]

(***************************************************************************)
(* safeParseJSON, line 20: the two replaces and the trim.                  *)
(***************************************************************************)
\* text.replace(/^```json/i, "")
StripLeadingFence(s) ==
    IF Len(s) >= 7 /\ LowerAll(SubSeq(s, 1, 7)) = <<BT, BT, BT, "j", "s", "o", "n">>
    THEN Drop(s, 7)
    ELSE s

\* .replace(/```$/i, ""): without the m flag $ matches at the very end only.
StripTrailingFence(s) ==
    IF EndsWith(s, <<BT, BT, BT>>) THEN Take(s, Len(s) - 3) ELSE s

RECURSIVE TrimStart(_)
TrimStart(s) ==
    IF s # <<>> /\ s[1] \in TrimWs THEN TrimStart(Drop(s, 1)) ELSE s

RECURSIVE TrimEnd(_)
TrimEnd(s) ==
    IF s # <<>> /\ s[Len(s)] \in TrimWs THEN TrimEnd(Take(s, Len(s) - 1)) ELSE s

Trim(s) == TrimEnd(TrimStart(s))

Cleaned(text) == Trim(StripTrailingFence(StripLeadingFence(text)))

(***************************************************************************)
(* JSON.parse.  A parsed value is a record with the same fields whatever   *)
(* its type: t is the type, b / n / s the boolean, number or string,       *)
(* items the elements of an array or the values of an object, keys the     *)
(* object's keys in insertion order.  The grammar is the JSON grammar over *)
(* Alphabet: with no sign, ".", "e" or "\" in the alphabet a number is     *)
(* 0 | [1-9][0-9]* and a string has no escapes.                            *)
(***************************************************************************)
Alphabet ==
    {BT, QT, SP, NL, FF, "{", "}", "[", "]", ":", ",", "0", "1", "2",
     "j", "s", "o", "n", "J", "S", "O", "N", "u", "l", "a", "x"}

NullV == [t |-> "null", b |-> FALSE, n |-> 0, s |-> <<>>, items |-> <<>>, keys |-> <<>>]

BoolV(x) == [NullV EXCEPT !.t = "bool", !.b = x]

NumV(x) == [NullV EXCEPT !.t = "num", !.n = x]

StrV(x) == [NullV EXCEPT !.t = "str", !.s = x]

ArrV(xs) == [NullV EXCEPT !.t = "arr", !.items = xs]

ObjV(ks, xs) == [NullV EXCEPT !.t = "obj", !.keys = ks, !.items = xs]

\* A step of the parser: the value read and the position after it, or a failure.
Got(v, next) == [ok |-> TRUE, v |-> v, next |-> next]

Bad == [ok |-> FALSE, v |-> NullV, next |-> 0]

At(s, i) == IF i >= 1 /\ i <= Len(s) THEN s[i] ELSE "EOF"

RECURSIVE SkipWs(_, _)
SkipWs(s, i) == IF At(s, i) \in JsonWs THEN SkipWs(s, i + 1) ELSE i

ParseLiteral(s, i, word, v) ==
    IF i + Len(word) - 1 <= Len(s) /\ SubSeq(s, i, i + Len(word) - 1) = word
    THEN Got(v, i + Len(word))
    ELSE Bad

\* Position after the run of digits that starts at i.
RECURSIVE DigitsEnd(_, _)
DigitsEnd(s, i) == IF At(s, i) \in Digits THEN DigitsEnd(s, i + 1) ELSE i

\* Value of the digits s[i..j-1].
RECURSIVE NumVal(_, _, _, _)
NumVal(s, i, j, acc) ==
    IF i >= j THEN acc ELSE NumVal(s, i + 1, j, 10 * acc + DigitVal(s[i]))

ParseNumber(s, i) ==
    IF s[i] = "0"
    THEN Got(NumV(0), i + 1)
    ELSE LET j == DigitsEnd(s, i) IN Got(NumV(NumVal(s, i, j, 0)), j)

\* Position of the closing quote of the string whose first character is at i;
\* 0 when the text ends or a control character comes first.
RECURSIVE StringEnd(_, _)
StringEnd(s, i) ==
    IF i > Len(s) \/ s[i] \in {NL, FF, "\t", "\r"} THEN 0
    ELSE IF s[i] = QT THEN i
    ELSE StringEnd(s, i + 1)

ParseString(s, i) ==
    LET j == StringEnd(s, i + 1)
    IN  IF j = 0 THEN Bad ELSE Got(StrV(SubSeq(s, i + 1, j - 1)), j + 1)

\* obj[k] = v: a repeated key keeps its place and takes the later value.
PutMember(ks, xs, k, v) ==
    IF \E m \in 1..Len(ks) : ks[m] = k
    THEN LET m == CHOOSE m \in 1..Len(ks) : ks[m] = k
         IN  [ks |-> ks, xs |-> [xs EXCEPT ![m] = v]]
    ELSE [ks |-> Append(ks, k), xs |-> Append(xs, v)]

RECURSIVE ParseValue(_, _)
RECURSIVE ParseElements(_, _, _)
RECURSIVE ParseMembers(_, _, _, _)

ParseValue(s, i) ==
    LET c == At(s, i)
    IN  CASE c = "{" ->
               LET j == SkipWs(s, i + 1)
               IN  IF At(s, j) = "}" THEN Got(ObjV(<<>>, <<>>), j + 1)
                   ELSE ParseMembers(s, j, <<>>, <<>>)
          [] c = "[" ->
               LET j == SkipWs(s, i + 1)
               IN  IF At(s, j) = "]" THEN Got(ArrV(<<>>), j + 1)
                   ELSE ParseElements(s, j, <<>>)
          [] c = QT -> ParseString(s, i)
          [] c \in Digits -> ParseNumber(s, i)
          [] c = "n" -> ParseLiteral(s, i, <<"n", "u", "l", "l">>, NullV)
          [] c = "t" -> ParseLiteral(s, i, <<"t", "r", "u", "e">>, BoolV(TRUE))
          [] c = "f" -> ParseLiteral(s, i, <<"f", "a", "l", "s", "e">>, BoolV(FALSE))
          [] OTHER -> Bad

\* The elements of an array from position i on, acc being those already read.
ParseElements(s, i, acc) ==
    LET r == ParseValue(s, i)
    IN  IF ~r.ok THEN Bad
        ELSE LET k == SkipWs(s, r.next)
             IN  CASE At(s, k) = "," -> ParseElements(s, SkipWs(s, k + 1), Append(acc, r.v))
                   [] At(s, k) = "]" -> Got(ArrV(Append(acc, r.v)), k + 1)
                   [] OTHER -> Bad

\* The members of an object from position i on.
ParseMembers(s, i, ks, xs) ==
    IF At(s, i) # QT THEN Bad
    ELSE LET key == ParseString(s, i)
         IN  IF ~key.ok THEN Bad
             ELSE LET c == SkipWs(s, key.next)
                  IN  IF At(s, c) # ":" THEN Bad
                      ELSE LET r == ParseValue(s, SkipWs(s, c + 1))
                           IN  IF ~r.ok THEN Bad
                               ELSE LET k == SkipWs(s, r.next)
                                        put == PutMember(ks, xs, key.v.s, r.v)
                                    IN  CASE At(s, k) = "," ->
                                               ParseMembers(s, SkipWs(s, k + 1), put.ks, put.xs)
                                          [] At(s, k) = "}" -> Got(ObjV(put.ks, put.xs), k + 1)
                                          [] OTHER -> Bad

(***************************************************************************)
(* Outcome of a call: a returned value or a thrown error.                  *)
(***************************************************************************)
NoError == [name |-> "", message |-> ""]

Return(v) == [threw |-> FALSE, value |-> v, err |-> NoError]

Throw(e) == [threw |-> TRUE, value |-> NullV, err |-> e]

SyntaxError == [name |-> "SyntaxError", message |-> "Unexpected token in JSON"]

ResponseTooLarge ==
    [name |-> "Error",
     message |-> "The exam was too large for the AI to finish. Try uploading fewer training files or shortening the Matrix/Spec."]

\* JSON.parse(s): the whole text is one value between optional white space.
JSONParse(s) ==
    LET r == ParseValue(s, SkipWs(s, 1))
    IN  IF r.ok /\ SkipWs(s, r.next) = Len(s) + 1 THEN Return(r.v) ELSE Throw(SyntaxError)

\* safeParseJSON, the try block (lines 18-21).
ParseCleaned(text) == JSONParse(Cleaned(text))

\* Mutant: no catch, the error of JSON.parse reaches the caller.
safeParseJSONRethrow(text) == ParseCleaned(text)

\* Mutant: a text that does not parse is repaired into an empty object.
safeParseJSONRepair(text) ==
    LET r == ParseCleaned(text)
    IN  IF r.threw THEN Return(ObjV(<<>>, <<>>)) ELSE r

\* Mutant: a parsed value that is not an object is refused.
safeParseJSONObjectsOnly(text) ==
    LET r == ParseCleaned(text)
    IN  IF r.threw \/ r.value.t # "obj" THEN Throw(ResponseTooLarge) ELSE r

\* safeParseJSON (lines 17-28): whatever the try block throws is replaced.
safeParseJSON(text) ==
    LET r == ParseCleaned(text)
    IN  IF r.threw THEN Throw(ResponseTooLarge) ELSE r

(***************************************************************************)
(* Texts of the form: a text is len characters of the endless repetition   *)
(* of pat, starting off characters in.  This keeps texts longer than the   *)
(* truncation limits small; two texts are the same string when TextEq.     *)
(***************************************************************************)
CharAt(t, i) == t.pat[((t.off + i - 1) % Len(t.pat)) + 1]

TextEq(a, b) == a.len = b.len /\ \A i \in 1..a.len : CharAt(a, i) = CharAt(b, i)

Lit(chars) == [pat |-> chars, off |-> 0, len |-> Len(chars)]

EmptyText == [pat |-> <<"-">>, off |-> 0, len |-> 0]

\* String.prototype.slice(a, b) for 0 <= a, 0 <= b.
Slice(t, a, b) ==
    LET from == Min(a, t.len)
        to   == Min(b, t.len)
    IN  [pat |-> t.pat, off |-> t.off + from, len |-> Max(to - from, 0)]

\* "t || d" on an optional text: undefined and "" are falsy.
OrElse(o, d) == IF o # None /\ o[1].len > 0 THEN o[1] ELSE d

\* ${o} in a template literal: undefined is rendered as the word undefined.
Render(o) == IF o = None THEN Lit(<<"u", "n", "d", "e", "f", "i", "n", "e", "d">>) ELSE o[1]

\* o?.slice(a, b)
OptSlice(o, a, b) == IF o = None THEN None ELSE Some(Slice(o[1], a, b))

RefLimit == 15000

MatrixLimit == 5000

SpecLimit == 5000

NoneText == Lit(<<"N", "o", "n", "e">>)

StandardStructure == Lit(<<"S", "t", "a", "n", "d", "a", "r", "d", " ", "G", "D", "P", "T", " ", "2", "0", "1", "8">>)

(***************************************************************************)
(* DIFFICULTY_RULES (lines 67-107) and its lookup (line 110).  The rule    *)
(* texts are named, not spelled out.  A property read on an object literal *)
(* also finds the members inherited from Object.prototype.                 *)
(***************************************************************************)
DIFFICULTY_RULES ==
    [k \in {"Primary", "Middle School", "High School"} |->
        CASE k = "Primary" -> "RULE_PRIMARY"
          [] k = "Middle School" -> "RULE_MIDDLE_SCHOOL"
          [] k = "High School" -> "RULE_HIGH_SCHOOL"]

ObjectPrototypeMembers == {"constructor", "toString", "valueOf", "hasOwnProperty"}

DifficultyRule(level) ==
    CASE level \in DOMAIN DIFFICULTY_RULES -> DIFFICULTY_RULES[level]
      [] level \in ObjectPrototypeMembers ->
           "function " \o (IF level = "constructor" THEN "Object" ELSE level)
                       \o "() { [native code] }"
      [] OTHER -> DIFFICULTY_RULES["Middle School"]

\* lines 112-122
SystemInstruction(cfg) == [gradeLevel |-> cfg.gradeLevel, difficultyRule |-> DifficultyRule(cfg.level)]

\* Mutant: the reference text is cut at the limit of the matrix.
PrunedRefMatrixLimit(cfg) == OrElse(OptSlice(cfg.referenceContent, 0, MatrixLimit), NoneText)

\* lines 128-130
PrunedRef(cfg) == OrElse(OptSlice(cfg.referenceContent, 0, RefLimit), NoneText)

PrunedMatrix(cfg) == OptSlice(cfg.matrixContent, 0, MatrixLimit)

PrunedSpec(cfg) == OptSlice(cfg.specificationContent, 0, SpecLimit)

\* lines 132-149: the parts of the prompt that vary.
Step1Prompt(cfg) ==
    [systemInstruction |-> SystemInstruction(cfg),
     structure |-> OrElse(cfg.structureContent, StandardStructure),
     matrix |-> Render(PrunedMatrix(cfg)),
     spec |-> Render(PrunedSpec(cfg)),
     ref |-> PrunedRef(cfg),
     gradeLevel |-> cfg.gradeLevel]

\* lines 156-185
Step2Prompt(cfg, planText) ==
    [plan |-> planText,
     systemInstruction |-> SystemInstruction(cfg),
     level |-> cfg.level,
     gradeLevel |-> cfg.gradeLevel,
     examType |-> cfg.examType,
     responseMimeType |-> "application/json"]

Step1Msg == "Step 1/2: Analyzing Matrix & Training Data..."

Step2Msg == "Step 2/2: Generating Exam Content (Be patient)..."

(***************************************************************************)
(* callWithFallback (lines 30-65).                                         *)
(***************************************************************************)
MODEL_PRIORITY ==
    <<"gemini-3-flash-preview", "gemini-3-pro-preview", "gemini-2.5-flash", "gemini-2.5-pro">>

Includes(seq, x) == \E i \in 1..Len(seq) : seq[i] = x

\* seq.filter(m => m !== x)
RECURSIVE FilterOut(_, _)
FilterOut(seq, x) ==
    IF seq = <<>> THEN <<>>
    ELSE IF seq[1] = x THEN FilterOut(Tail(seq), x)
    ELSE <<seq[1]>> \o FilterOut(Tail(seq), x)

\* Mutant: a preferred model is put in front whether it is listed or not.
ResolveModelsAnyPreferred(pref) ==
    IF Truthy(pref)
    THEN <<pref[1]>> \o FilterOut(MODEL_PRIORITY, pref[1])
    ELSE MODEL_PRIORITY

\* Mutant: the preferred model is put in front and not removed from the rest.
ResolveModelsNoFilter(pref) ==
    IF Truthy(pref) /\ Includes(MODEL_PRIORITY, pref[1])
    THEN <<pref[1]>> \o MODEL_PRIORITY
    ELSE MODEL_PRIORITY

\* lines 41-44
ResolveModels(pref) ==
    IF Truthy(pref) /\ Includes(MODEL_PRIORITY, pref[1])
    THEN <<pref[1]>> \o FilterOut(MODEL_PRIORITY, pref[1])
    ELSE MODEL_PRIORITY

\* Mutant: the default credential is turned into a string before the test, so
\* that an absent one becomes the truthy word undefined.
ResolveKeyStringified(user, env) ==
    IF Truthy(user) THEN user
    ELSE IF env = None THEN Some("undefined")
    ELSE env

\* Mutant: the default credential is preferred.
ResolveKeyEnvFirst(user, env) == IF Truthy(env) THEN env ELSE user

\* line 33: userKey || process.env.API_KEY
ResolveKey(user, env) == IF Truthy(user) THEN user ELSE env

MissingCredential ==
    [name |-> "Error",
     message |-> "Missing API Key. Please click Settings to add your Google Gemini API Key."]

EmptyResponse == [name |-> "Error", message |-> "Empty response from AI"]

\* JSON.stringify of a thrown value: an Error has no enumerable property of its own.
Stringify(e) == "{}"

\* line 63: lastError?.message || JSON.stringify(lastError)
ErrorMessage(lastErr) ==
    IF lastErr = None THEN "undefined"
    ELSE IF lastErr[1].message # "" THEN lastErr[1].message
    ELSE Stringify(lastErr[1])

\* Mutant: the last error is thrown again as it is.
AllModelsFailedRethrow(lastErr) == lastErr[1]

\* line 64
AllModelsFailed(lastErr) ==
    [name |-> "Error", message |-> "All AI models failed. Last error: " \o ErrorMessage(lastErr)]

\* Events of the trace: a phase of the invocation entered, a call of the
\* progress callback, a generateContent request, and its reply: kind "text"
\* with the text, or kind "fail" when it threw or returned no text.
PhaseEv(phase) ==
    [ev |-> "phase", stage |-> 0, model |-> "", key |-> "", kind |-> phase, text |-> <<>>]

ProgressEv(stage) ==
    [ev |-> "progress", stage |-> stage, model |-> "", key |-> "", kind |-> "", text |-> <<>>]

CallEv(stage, model, key) ==
    [ev |-> "call", stage |-> stage, model |-> model, key |-> key, kind |-> "", text |-> <<>>]

ReplyEv(stage, model, kind, text) ==
    [ev |-> "reply", stage |-> stage, model |-> model, key |-> "", kind |-> kind, text |-> text]

Request(stage, model, key) == [stage |-> stage, model |-> model, key |-> key]

Await(stage) == IF stage = 1 THEN "await1" ELSE "await2"

\* The locals of a callWithFallback call; status: "none" before the call,
\* "running", "returned", "threw".
NoFrame ==
    [status |-> "none", userKey |-> None, apiKey |-> None, preferredModel |-> None,
     modelsToTry |-> <<>>, idx |-> 0, lastError |-> None]

\* Mutant: generateExam wraps the error it rejects with.
RejectWrapped(e, tr) ==
    /\ pc' = "failed"
    /\ error' = Some([name |-> "Error", message |-> "Exam generation failed: " \o e.message])
    /\ trace' = Append(tr, PhaseEv("Failed"))

\* generateExam rejects with e, tr being the events so far.
Reject(e, tr) ==
    /\ pc' = "failed"
    /\ error' = Some(e)
    /\ trace' = Append(tr, PhaseEv("Failed"))

\* Mutant: the request is never sent.
IssuedNone(stage, i, key, models) == {}

\* Mutant: the remaining candidates are raced.
IssuedAll(stage, i, key, models) == {Request(stage, models[j], key) : j \in i..Len(models)}

\* The requests the loop issues when it reaches position i (line 49): one.
Issued(stage, i, key, models) == {Request(stage, models[i], key)}

\* Mutant: the loop is left when a request fails with an invalid-key error.
TryModelStopOnInvalidKey(stage, frames, frame, i, lastErr, fl, tr) ==
    IF /\ i <= Len(frame.modelsToTry)
       /\ ~(lastErr # None /\ lastErr[1].message = "401 API key not valid")
    THEN /\ cwf' = [frames EXCEPT ![stage] =
                      [frame EXCEPT !.status = "running", !.idx = i, !.lastError = lastErr]]
         /\ inFlight' = fl \cup Issued(stage, i, frame.apiKey[1], frame.modelsToTry)
         /\ trace' = Append(tr, CallEv(stage, frame.modelsToTry[i], frame.apiKey[1]))
         /\ pc' = Await(stage)
         /\ error' = error
    ELSE /\ cwf' = [frames EXCEPT ![stage] =
                      [frame EXCEPT !.status = "threw", !.idx = i, !.lastError = lastErr]]
         /\ inFlight' = fl
         /\ Reject(AllModelsFailed(lastErr), tr)

\* One turn of the for-loop (lines 46-60) at position i of frame.modelsToTry,
\* then the throw of line 64 when the loop is over.  fl: the requests still in
\* flight, tr: the events so far, frames: the locals of the calls so far.
TryModel(stage, frames, frame, i, lastErr, fl, tr) ==
    IF i <= Len(frame.modelsToTry)
    THEN /\ cwf' = [frames EXCEPT ![stage] =
                      [frame EXCEPT !.status = "running", !.idx = i, !.lastError = lastErr]]
         /\ inFlight' = fl \cup Issued(stage, i, frame.apiKey[1], frame.modelsToTry)
         /\ trace' = Append(tr, CallEv(stage, frame.modelsToTry[i], frame.apiKey[1]))
         /\ pc' = Await(stage)
         /\ error' = error
    ELSE /\ cwf' = [frames EXCEPT ![stage] =
                      [frame EXCEPT !.status = "threw", !.idx = i, !.lastError = lastErr]]
         /\ inFlight' = fl
         /\ Reject(AllModelsFailed(lastErr), tr)

\* Mutant: the second call reuses the credential and the order resolved by
\* the first.
CallWithFallbackCached(stage, frames, fl, tr) ==
    LET fresh == [NoFrame EXCEPT
                    !.userKey = storedKey,
                    !.apiKey = ResolveKey(storedKey, envKey),
                    !.preferredModel = storedModel,
                    !.modelsToTry = ResolveModels(storedModel)]
        frame == IF stage = 2
                 THEN [frames[1] EXCEPT !.status = "none", !.idx = 0, !.lastError = None]
                 ELSE fresh
    IN  IF ~Truthy(frame.apiKey)
        THEN /\ cwf' = [frames EXCEPT ![stage] =
                          [NoFrame EXCEPT !.status = "threw", !.userKey = storedKey,
                                          !.apiKey = frame.apiKey]]
             /\ inFlight' = fl
             /\ Reject(MissingCredential, tr)
        ELSE TryModel(stage, frames, frame, 1, None, fl, tr)

\* callWithFallback from its first line to its first await (lines 31-49).
CallWithFallback(stage, frames, fl, tr) ==
    LET frame == [NoFrame EXCEPT
                    !.userKey = storedKey,
                    !.apiKey = ResolveKey(storedKey, envKey),
                    !.preferredModel = storedModel,
                    !.modelsToTry = ResolveModels(storedModel)]
    IN  IF ~Truthy(frame.apiKey)
        THEN /\ cwf' = [frames EXCEPT ![stage] =
                          [NoFrame EXCEPT !.status = "threw", !.userKey = storedKey,
                                          !.apiKey = frame.apiKey]]
             /\ inFlight' = fl
             /\ Reject(MissingCredential, tr)
        ELSE TryModel(stage, frames, frame, 1, None, fl, tr)

(***************************************************************************)
(* Inputs.                                                                 *)
(***************************************************************************)
MaxOver == 1

MaxPad == 1

\* Keys typed into the settings dialog, and models selected in it.
UserKeys == {"K2"}

SavedModels == {MODEL_PRIORITY[2]}

\* Identifiers the stored preference can hold: the ids of MODELS (App.tsx,
\* lines 21-26), the same as MODEL_PRIORITY, and one that is not listed.
ModelIds == {MODEL_PRIORITY[i] : i \in 1..Len(MODEL_PRIORITY)}

StaleModel == "gemini-1.5-pro"

\* Behaviours of the onProgress argument: not given, returns, throws on its
\* first call, throws on its second call.
Callbacks == {"none", "ok", "throw1", "throw2"}

CallbackError == [name |-> "Error", message |-> "onProgress failed"]

Pattern == <<"a", "b", "c", "d", "e", "f", "g">>

Text(n) == [pat |-> Pattern, off |-> 0, len |-> n]

Lengths(limit) == {0, 1, limit - 1, limit} \cup (limit + 1 .. limit + MaxOver)

OptTexts(limit) == {None} \cup {Some(Text(n)) : n \in Lengths(limit)}

MakeConfig(level, structure, matrix, spec, ref) ==
    [level |-> level, gradeLevel |-> "Grade 10", examType |-> "45m",
     structureContent |-> structure, matrixContent |-> matrix,
     specificationContent |-> spec, referenceContent |-> ref]

\* Configurations of the runs of the whole pipeline.
Configs ==
    {MakeConfig("High School", None, None, None, None),
     MakeConfig("University", Some(Text(3)), Some(Text(MatrixLimit + 1)),
                Some(EmptyText), Some(Text(RefLimit + 1)))}

\* Values of config.level: the keys of DIFFICULTY_RULES, other labels, a key
\* in another case, the empty string, names of inherited members.
Levels ==
    {"Primary", "Middle School", "High School", "University", "primary", "",
     "constructor", "toString"}

\* Configurations for the resolution of the difficulty rule.
LevelConfigs == {MakeConfig(level, None, None, None, None) : level \in Levels}

\* Configurations for the truncation of the inputs.
PruneConfigs ==
    {MakeConfig("Middle School", st, m, sp, r) :
        st \in {None, Some(Text(2)), Some(Text(RefLimit + MaxOver))},
        m \in OptTexts(MatrixLimit),
        sp \in OptTexts(SpecLimit), r \in OptTexts(RefLimit)}

\* What generateContent can throw.
ServiceErrors ==
    {[name |-> "Error", message |-> "429 quota exceeded"],
     [name |-> "Error", message |-> "401 API key not valid"],
     [name |-> "Error", message |-> ""]}

\* Answers of the service to the stage-1 prompt.
Plans == {<<"a">>}

Fence == <<BT, BT, BT>>

JsonFence == Fence \o <<"j", "s", "o", "n">>

EmptyObject == <<"{", "}">>

SmallObject == <<"{", QT, "a", QT, ":", "1", "}">>

KeyExamTitle == <<"e", "x", "a", "m", "T", "i", "t", "l", "e">>

KeyDuration == <<"d", "u", "r", "a", "t", "i", "o", "n">>

KeyContent == <<"c", "o", "n", "t", "e", "n", "t">>

KeyAnswers == <<"a", "n", "s", "w", "e", "r", "s">>

Quoted(chars) == <<QT>> \o chars \o <<QT>>

\* {"examTitle":"T","duration":"45m","content":[],"answers":[]}
MinimalExam ==
    <<"{">> \o Quoted(KeyExamTitle) \o <<":">> \o Quoted(<<"T">>) \o <<",">>
    \o Quoted(KeyDuration) \o <<":">> \o Quoted(<<"4", "5", "m">>) \o <<",">>
    \o Quoted(KeyContent) \o <<":", "[", "]", ",">>
    \o Quoted(KeyAnswers) \o <<":", "[", "]", "}">>

\* Answers of the service to the stage-2 prompt.
Responses ==
    {SmallObject,
     MinimalExam,
     JsonFence \o <<NL>> \o SmallObject \o <<NL>> \o Fence,
     JsonFence \o <<NL>> \o SmallObject \o <<NL>> \o Fence \o <<NL>>,
     Take(SmallObject, 6),
     <<"n", "u", "l", "l">>}

\* JSON texts and texts that are not JSON.
Bodies ==
    {EmptyObject, SmallObject, <<"[", "]">>, <<"1", "0">>, <<"n", "u", "l", "l">>,
     <<QT, "a", QT>>, <<"[", "1", ",", SP, "{", "}", "]">>,
     <<"{", QT, "a", QT, ":", "[", "0", "]", ",", QT, "a", QT, ":", "2", "}">>,
     <<>>, Take(SmallObject, 6), <<"[", "1", ",">>, <<"0", "1">>, <<"x">>,
     <<"{", QT, "a", QT, "}">>, <<"n", "u", "l">>}

\* Runs of white space of at most MaxPad characters.
Pads ==
    {<<>>, <<SP>>, <<FF>>} \cup {[i \in 1..n |-> NL] : n \in 1..MaxPad}

LeadFences == {<<>>, JsonFence, Fence \o <<"J", "S", "O", "N">>, Fence \o <<"J", "s", "o", "n">>}

TrailFences == {<<>>, Fence}

\* A response text in parts: white space, opening fence, white space, body,
\* white space, closing fence, white space.
ParseInputs ==
    [pre : Pads, lead : LeadFences, in1 : Pads, body : Bodies,
     in2 : Pads, trail : TrailFences, post : Pads]

Assemble(p) == p.pre \o p.lead \o p.in1 \o p.body \o p.in2 \o p.trail \o p.post

(***************************************************************************)
(* Initial states.                                                         *)
(***************************************************************************)
NoParseInput ==
    [pre |-> <<>>, lead |-> <<>>, in1 |-> <<>>, body |-> <<>>,
     in2 |-> <<>>, trail |-> <<>>, post |-> <<>>]

\* App as mounted (App.tsx, lines 29-33): the useState initial values.
AppMounted ==
    /\ view = "INPUT"
    /\ examData = NullV
    /\ appError = None
    /\ loadingMessage = "Generating English Exam..."
    /\ gens = <<>>
    /\ shownFrom = 0

\* Nothing has been invoked.
Idle ==
    /\ pc = "idle"
    /\ config = MakeConfig("", None, None, None, None)
    /\ onProgress = "none"
    /\ progress = <<>>
    /\ step1Prompt = None
    /\ plan = None
    /\ step2Prompt = None
    /\ finalResponse = None
    /\ cwf = [st \in 1..2 |-> NoFrame]
    /\ inFlight = {}
    /\ trace = <<>>
    /\ result = None
    /\ error = None
    /\ pret = None
    /\ lastFailure = [st \in 1..2 |-> None]
    /\ AppMounted

\* Every kind of stored credential, default credential and stored preference.
StoredKeys == {None, Some("K1")}

EnvKeys == {None, Some(""), Some("ENV")}

StoredModels == {None, Some("")} \cup {Some(m) : m \in ModelIds \cup {StaleModel}}

Init ==
    /\ storedKey \in StoredKeys
    /\ envKey \in {None, Some("ENV")}
    /\ storedModel \in {None, Some(MODEL_PRIORITY[3])}
    /\ ptext = NoParseInput
    /\ Idle

(***************************************************************************)
(* generateExam (lines 109-198), one action for each stretch of code that  *)
(* runs without an await in it.                                            *)
(***************************************************************************)
\* Mutant: both notifications carry the message of step 1.
NotifyStep1Only(cb, msgs, msg) == IF cb = "none" THEN msgs ELSE Append(msgs, Step1Msg)

\* onProgress?.(msg): the messages the callback has received.
Notify(cb, msgs, msg) == IF cb = "none" THEN msgs ELSE Append(msgs, msg)

NotifyEv(cb, tr, stage) == IF cb = "none" THEN tr ELSE Append(tr, ProgressEv(stage))

\* Mutant: what the callback throws is caught and dropped.
CallbackThrowsCaught(cb, stage) == FALSE

\* The call of the callback at the given step throws (lines 125, 154: the
\* call is in no try block).
CallbackThrows(cb, stage) == (cb = "throw1" /\ stage = 1) \/ (cb = "throw2" /\ stage = 2)

\* Lines 109-151, to the first await of callWithFallback.
GenerateExam(cfg, cb) ==
    /\ pc = "idle"
    /\ config' = cfg
    /\ onProgress' = cb
    /\ progress' = Notify(cb, progress, Step1Msg)
    /\ LET tr == NotifyEv(cb, Append(trace, PhaseEv("AnalyzingPlan")), 1)
       IN  IF CallbackThrows(cb, 1)
           THEN /\ Reject(CallbackError, tr)
                /\ UNCHANGED <<step1Prompt, cwf, inFlight>>
           ELSE /\ step1Prompt' = Some(Step1Prompt(cfg))
                /\ CallWithFallback(1, cwf, inFlight, tr)
    /\ UNCHANGED <<storedKey, storedModel, envKey, plan, step2Prompt, finalResponse,
                   result, ptext, pret, lastFailure,
                   appVars>>

Stage == IF pc = "await1" THEN 1 ELSE 2

\* The request of the current turn of the loop.
Current == Request(Stage, cwf[Stage].modelsToTry[cwf[Stage].idx], cwf[Stage].apiKey[1])

\* Stage 1's request returns the text t: lines 50, 151-188, to the first await
\* of the second callWithFallback.
Stage1Returns(t) ==
    /\ pc = "await1"
    /\ Current \in inFlight
    /\ t # <<>>
    /\ plan' = Some(t)
    /\ progress' = Notify(onProgress, progress, Step2Msg)
    /\ LET tr == NotifyEv(onProgress,
                          Append(Append(trace, ReplyEv(1, Current.model, "text", t)),
                                 PhaseEv("SynthesizingContent")), 2)
           fl == inFlight \ {Current}
           returned == [cwf EXCEPT ![1].status = "returned"]
       IN  IF CallbackThrows(onProgress, 2)
           THEN /\ Reject(CallbackError, tr)
                /\ inFlight' = fl
                /\ cwf' = returned
                /\ UNCHANGED step2Prompt
           ELSE /\ step2Prompt' = Some(Step2Prompt(config, t))
                /\ CallWithFallback(2, returned, fl, tr)
    /\ UNCHANGED <<storedKey, storedModel, envKey, config, onProgress, step1Prompt,
                   finalResponse, result, ptext, pret, lastFailure,
                   appVars>>

\* Mutant: the model that answered is stored as the preferred one.
Stage2ReturnsStoresModel(t) ==
    /\ pc = "await2"
    /\ Current \in inFlight
    /\ t # <<>>
    /\ finalResponse' = Some(t)
    /\ inFlight' = inFlight \ {Current}
    /\ cwf' = [cwf EXCEPT ![2].status = "returned"]
    /\ storedModel' = Some(Current.model)
    /\ LET r == safeParseJSON(t)
           tr == Append(trace, ReplyEv(2, Current.model, "text", t))
       IN  IF r.threw
           THEN /\ Reject(r.err, tr)
                /\ result' = result
           ELSE /\ pc' = "done"
                /\ result' = Some(r.value)
                /\ trace' = Append(tr, PhaseEv("Done"))
                /\ error' = error
    /\ UNCHANGED <<storedKey, envKey, config, onProgress, progress,
                   step1Prompt, plan, step2Prompt, ptext, pret, lastFailure,
                   appVars>>

\* Mutant: line 50 does not return, the loop goes on to the next candidate
\* while there is one.
Stage2ReturnsNoReturn(t) ==
    /\ pc = "await2"
    /\ Current \in inFlight
    /\ t # <<>>
    /\ LET tr == Append(trace, ReplyEv(2, Current.model, "text", t))
           r == safeParseJSON(t)
       IN  IF cwf[2].idx < Len(cwf[2].modelsToTry)
           THEN /\ TryModel(2, cwf, cwf[2], cwf[2].idx + 1, cwf[2].lastError,
                            inFlight \ {Current}, tr)
                /\ UNCHANGED <<finalResponse, result>>
           ELSE /\ finalResponse' = Some(t)
                /\ inFlight' = inFlight \ {Current}
                /\ cwf' = [cwf EXCEPT ![2].status = "returned"]
                /\ pc' = IF r.threw THEN "failed" ELSE "done"
                /\ result' = IF r.threw THEN result ELSE Some(r.value)
                /\ error' = IF r.threw THEN Some(r.err) ELSE error
                /\ trace' = Append(tr, PhaseEv(IF r.threw THEN "Failed" ELSE "Done"))
    /\ UNCHANGED <<storedKey, storedModel, envKey, config, onProgress, progress,
                   step1Prompt, plan, step2Prompt, ptext, pret, lastFailure,
                   appVars>>

\* Stage 2's request returns the text t: lines 50, 188-197.
Stage2Returns(t) ==
    /\ pc = "await2"
    /\ Current \in inFlight
    /\ t # <<>>
    /\ finalResponse' = Some(t)
    /\ inFlight' = inFlight \ {Current}
    /\ cwf' = [cwf EXCEPT ![2].status = "returned"]
    /\ LET r == safeParseJSON(t)
           tr == Append(trace, ReplyEv(2, Current.model, "text", t))
       IN  IF r.threw
           THEN /\ Reject(r.err, tr)
                /\ result' = result
           ELSE /\ pc' = "done"
                /\ result' = Some(r.value)
                /\ trace' = Append(tr, PhaseEv("Done"))
                /\ error' = error
    /\ UNCHANGED <<storedKey, storedModel, envKey, config, onProgress, progress,
                   step1Prompt, plan, step2Prompt, ptext, pret, lastFailure,
                   appVars>>

\* Mutant: only the first failure of a call is kept.
RecordedFirst(prev, kind, e) ==
    IF prev # None THEN prev
    ELSE Some(IF kind = "empty" THEN EmptyResponse ELSE e)

\* Lines 50-54: what lastError holds after the request threw e, or returned
\* no text (kind "empty"); prev is what it held before.
Recorded(prev, kind, e) == Some(IF kind = "empty" THEN EmptyResponse ELSE e)

\* The request of the current turn throws e, or returns no text (kind "empty"):
\* lines 50-59, then the next turn of the loop or line 64.
RequestFails(kind, e) ==
    /\ pc \in {"await1", "await2"}
    /\ Current \in inFlight
    /\ TryModel(Stage, cwf, cwf[Stage], cwf[Stage].idx + 1,
                Recorded(cwf[Stage].lastError, kind, e),
                inFlight \ {Current},
                Append(trace, ReplyEv(Stage, Current.model, "fail", <<>>)))
    /\ lastFailure' = [lastFailure EXCEPT ![Stage] = Some([kind |-> kind, thrown |-> e])]
    /\ UNCHANGED <<storedKey, storedModel, envKey, config, onProgress, progress,
                   step1Prompt, plan, step2Prompt, finalResponse, result,
                   ptext, pret,
                   appVars>>

\* App.handleSaveSettings (App.tsx, lines 50-58) with a non-blank key k typed
\* in and the model m selected.
SaveSettings(k, m) ==
    /\ storedKey' = Some(k)
    /\ storedModel' = Some(m)
    /\ UNCHANGED <<envKey, pc, config, onProgress, progress, step1Prompt, plan,
                   step2Prompt, finalResponse, cwf, inFlight, trace, result, error,
                   ptext, pret, lastFailure,
                   appVars>>

\* The stored settings are removed from outside the page (the browser's
\* site data is cleared, or another page of the origin clears them):
\* localStorage.getItem (lines 32, 40) then returns null.
StorageCleared ==
    /\ storedKey' = None
    /\ storedModel' = None
    /\ UNCHANGED <<envKey, pc, config, onProgress, progress, step1Prompt, plan,
                   step2Prompt, finalResponse, cwf, inFlight, trace, result, error,
                   ptext, pret, lastFailure,
                   appVars>>

Next ==
    \/ \E cfg \in Configs, cb \in Callbacks : GenerateExam(cfg, cb)
    \/ \E t \in Plans : Stage1Returns(t)
    \/ \E t \in Responses : Stage2Returns(t)
    \/ \E e \in ServiceErrors : RequestFails("throw", e)
    \/ RequestFails("empty", NoError)
    \/ \E k \in UserKeys, m \in SavedModels : SaveSettings(k, m)
    \/ StorageCleared

Spec == Init /\ [][Next]_vars

\* The whole pipeline when every request settles (the continuation of an
\* await runs once its promise is settled), with one input of each kind
\* that decides the path taken: a stored key or none, each behaviour of the
\* callback, an answer that parses and one that does not, a request that
\* throws and one that returns no text, the settings saved or removed at any
\* time.
InitLive ==
    /\ storedKey \in StoredKeys
    /\ envKey = None
    /\ storedModel = None
    /\ ptext = NoParseInput
    /\ Idle

LiveConfigs == {MakeConfig("High School", None, None, None, None)}

LiveResponses == {SmallObject, Take(SmallObject, 6)}

LiveErrors == {[name |-> "Error", message |-> "429 quota exceeded"]}

\* The request awaited at line 49 settles: it throws, returns no text, or
\* returns a text.
SettleLive ==
    \/ \E e \in LiveErrors : RequestFails("throw", e)
    \/ RequestFails("empty", NoError)
    \/ \E t \in Plans : Stage1Returns(t)
    \/ \E t \in LiveResponses : Stage2Returns(t)

NextLive ==
    \/ \E cfg \in LiveConfigs, cb \in Callbacks : GenerateExam(cfg, cb)
    \/ SettleLive
    \/ \E k \in UserKeys, m \in SavedModels : SaveSettings(k, m)
    \/ StorageCleared

SpecLive == InitLive /\ [][NextLive]_vars /\ WF_vars(SettleLive)

(***************************************************************************)
(* The resolution of the credential and of the attempt order, from every   *)
(* stored setting: an invocation up to its first request.                  *)
(***************************************************************************)
InitResolve ==
    /\ storedKey \in StoredKeys
    /\ envKey \in EnvKeys
    /\ storedModel \in StoredModels
    /\ ptext = NoParseInput
    /\ Idle

NextResolve ==
    \/ \E cfg \in Configs, cb \in Callbacks : GenerateExam(cfg, cb)
    \/ \E k \in UserKeys, m \in ModelIds : SaveSettings(k, m)

SpecResolve == InitResolve /\ [][NextResolve]_vars

(***************************************************************************)
(* The attempt order from every stored setting: the whole loop of stage 1, *)
(* every request returning no text.                                        *)
(***************************************************************************)
NextOrder ==
    \/ \E cfg \in Configs : GenerateExam(cfg, "none")
    \/ RequestFails("empty", NoError)
    \/ \E k \in UserKeys, m \in ModelIds : SaveSettings(k, m)

SpecOrder == InitResolve /\ [][NextOrder]_vars

(***************************************************************************)
(* The difficulty rule in the two prompts: an invocation up to the first   *)
(* request of stage 2, with every kind of level.                           *)
(***************************************************************************)
NextRules ==
    \/ \E cfg \in LevelConfigs, cb \in Callbacks : GenerateExam(cfg, cb)
    \/ \E t \in Plans : Stage1Returns(t)

SpecRules == InitResolve /\ [][NextRules]_vars

(***************************************************************************)
(* The truncation of the inputs: an invocation up to its first request.    *)
(***************************************************************************)
InitPrune ==
    /\ storedKey = Some("K1")
    /\ envKey = None
    /\ storedModel = None
    /\ ptext = NoParseInput
    /\ Idle

NextPrune == \E cfg \in PruneConfigs : GenerateExam(cfg, "ok")

SpecPrune == InitPrune /\ [][NextPrune]_vars

(***************************************************************************)
(* safeParseJSON on its own.                                               *)
(***************************************************************************)
InitParse ==
    /\ storedKey = Some("K1")
    /\ envKey = None
    /\ storedModel = None
    /\ ptext \in ParseInputs
    /\ Idle

SafeParse ==
    /\ pret = None
    /\ pret' = Some(safeParseJSON(Assemble(ptext)))
    /\ UNCHANGED <<storedKey, storedModel, envKey, pc, config, onProgress, progress,
                   step1Prompt, plan, step2Prompt, finalResponse, cwf, inFlight,
                   trace, result, error, ptext, lastFailure,
                   appVars>>

NextParse == SafeParse

SpecParse == InitParse /\ [][NextParse]_vars

(***************************************************************************)
(* App (App.tsx): handleGenerate (lines 60-74), handleReset (lines 76-81), *)
(* the logo (line 218), the closing of the error banner (line 265).  The   *)
(* form that calls handleGenerate is rendered only in the INPUT view (line *)
(* 269), the reset button only in the RESULT view (lines 237-241), the     *)
(* logo always.  Several handleGenerate calls can be awaiting at once;     *)
(* each call's generateExam is followed by its awaits: the stage-1 answer, *)
(* the stage-2 answer, or the failure of a stage.  A call is "step1" or    *)
(* "step2" while it awaits that stage and "settled" afterwards.            *)
(***************************************************************************)
MaxGenerations == 3

Gen(state, outcome) == [state |-> state, outcome |-> outcome]

\* line 71: err.message || "Error generating exam. Please try again."
CatchMessage(e) ==
    IF e.message # "" THEN e.message ELSE "Error generating exam. Please try again."

\* Mutant: the catch block shows the message and leaves the view alone.
CatchKeepsView(id, e) ==
    /\ appError' = Some(CatchMessage(e))
    /\ view' = view
    /\ UNCHANGED <<examData, shownFrom>>

\* Lines 70-73: generateExam rejected with e in call id.
Catch(id, e) ==
    /\ appError' = Some(CatchMessage(e))
    /\ view' = "INPUT"
    /\ UNCHANGED <<examData, shownFrom>>

\* Lines 67-69: generateExam resolved with the value v in call id.
Then(id, v) ==
    /\ examData' = v
    /\ view' = "RESULT"
    /\ shownFrom' = id
    /\ UNCHANGED appError

\* handleGenerate from its first line to the first await that waits for the
\* service: lines 61-63, then generateExam to line 151, the callback setting
\* the message of step 1; without a key callWithFallback throws at once and
\* the catch block runs before any other event.
HandleGenerate ==
    /\ view = "INPUT"
    /\ Len(gens) < MaxGenerations
    /\ loadingMessage' = Step1Msg
    /\ IF Truthy(ResolveKey(storedKey, envKey))
       THEN /\ gens' = Append(gens, Gen("step1", "none"))
            /\ view' = "LOADING"
            /\ appError' = None
            /\ UNCHANGED <<examData, shownFrom>>
       ELSE /\ gens' = Append(gens, Gen("settled", "rejected"))
            /\ Catch(Len(gens) + 1, MissingCredential)
    /\ UNCHANGED coreVars

\* Stage 1 of call id returns its text: generateExam lines 151-188, the
\* callback setting the message of step 2, then the second callWithFallback.
PlanArrives(id) ==
    /\ id \in 1..Len(gens)
    /\ gens[id].state = "step1"
    /\ loadingMessage' = Step2Msg
    /\ IF Truthy(ResolveKey(storedKey, envKey))
       THEN /\ gens' = [gens EXCEPT ![id] = Gen("step2", "none")]
            /\ UNCHANGED <<view, examData, appError, shownFrom>>
       ELSE /\ gens' = [gens EXCEPT ![id] = Gen("settled", "rejected")]
            /\ Catch(id, MissingCredential)
    /\ UNCHANGED coreVars

\* Every candidate of the stage call id awaits has failed, e being the last
\* failure: callWithFallback throws (line 64) and generateExam rejects.
StageFails(id, e) ==
    /\ id \in 1..Len(gens)
    /\ gens[id].state \in {"step1", "step2"}
    /\ gens' = [gens EXCEPT ![id] = Gen("settled", "rejected")]
    /\ Catch(id, AllModelsFailed(Some(e)))
    /\ UNCHANGED <<loadingMessage, coreVars>>

\* Stage 2 of call id returns the text t: generateExam line 197, then
\* handleGenerate lines 68-69 or its catch block.
ExamArrives(id, t) ==
    /\ id \in 1..Len(gens)
    /\ gens[id].state = "step2"
    /\ LET r == safeParseJSON(t)
       IN  IF r.threw
           THEN /\ gens' = [gens EXCEPT ![id] = Gen("settled", "rejected")]
                /\ Catch(id, r.err)
           ELSE /\ gens' = [gens EXCEPT ![id] = Gen("settled", "resolved")]
                /\ Then(id, r.value)
    /\ UNCHANGED <<loadingMessage, coreVars>>

\* line 218
LogoClick ==
    /\ view' = "INPUT"
    /\ UNCHANGED <<examData, appError, loadingMessage, gens, shownFrom, coreVars>>

\* handleReset (lines 76-81), the confirmation accepted.
HandleReset ==
    /\ view = "RESULT"
    /\ view' = "INPUT"
    /\ examData' = NullV
    /\ shownFrom' = 0
    /\ UNCHANGED <<appError, loadingMessage, gens, coreVars>>

\* line 265
DismissError ==
    /\ appError # None
    /\ appError' = None
    /\ UNCHANGED <<view, examData, loadingMessage, gens, shownFrom, coreVars>>

\* Texts stage 2 can return to App: an exam, JSON that is no exam, a text
\* that is cut short.
AppResponses == {MinimalExam, <<"n", "u", "l", "l">>, <<"[", "]">>, Take(SmallObject, 6)}

AppFailures == LiveErrors \cup {EmptyResponse}

InitApp ==
    /\ storedKey \in StoredKeys
    /\ envKey = None
    /\ storedModel = None
    /\ ptext = NoParseInput
    /\ Idle

NextApp ==
    \/ HandleGenerate
    \/ \E id \in 1..MaxGenerations : PlanArrives(id)
    \/ \E id \in 1..MaxGenerations, e \in AppFailures : StageFails(id, e)
    \/ \E id \in 1..MaxGenerations, t \in AppResponses : ExamArrives(id, t)
    \/ LogoClick
    \/ HandleReset
    \/ DismissError
    \/ StorageCleared

SpecApp == InitApp /\ [][NextApp]_vars

(***************************************************************************)
(* What the trace shows.                                                   *)
(***************************************************************************)
IsCall(e, st) == e.ev = "call" /\ e.stage = st

IsReply(e, st) == e.ev = "reply" /\ e.stage = st

RECURSIVE Filter(_, _, _)
Filter(seq, ev, st) ==
    IF seq = <<>> THEN <<>>
    ELSE IF seq[1].ev = ev /\ seq[1].stage = st
         THEN <<seq[1]>> \o Filter(Tail(seq), ev, st)
         ELSE Filter(Tail(seq), ev, st)

\* The requests of stage st and their replies, in order.
Calls(st) == Filter(trace, "call", st)

Replies(st) == Filter(trace, "reply", st)

\* The phases entered, in order.
Phases == [i \in 1..Len(Filter(trace, "phase", 0)) |-> Filter(trace, "phase", 0)[i].kind]

\* What the callWithFallback call of stage st returned to generateExam.
Returned(st) == IF st = 1 THEN plan ELSE finalResponse

Position(m) == CHOOSE i \in 1..Len(MODEL_PRIORITY) : MODEL_PRIORITY[i] = m

(***************************************************************************)
(* C1.  First success wins: when the k-th candidate of the resolved order  *)
(* is the first whose request returns a non-empty text, exactly k requests *)
(* are made in that callWithFallback call, to the first k candidates in    *)
(* order, none after it, and the call returns that text.                   *)
(***************************************************************************)
C1_FirstSuccessWins ==
    \A st \in 1..2 :
        \A k \in 1..Len(Replies(st)) :
            Replies(st)[k].kind = "text" =>
                /\ Len(Calls(st)) = k
                /\ \A j \in 1..(k - 1) : Replies(st)[j].kind = "fail"
                /\ \A j \in 1..k : Calls(st)[j].model = cwf[st].modelsToTry[j]
                /\ cwf[st].status = "returned"
                /\ Returned(st) = Some(Replies(st)[k].text)

\* The third candidate of stage 2 answers after two failures, and the text parses.
C1_Witness ==
    /\ pc = "done"
    /\ Len(Replies(2)) = 3
    /\ Replies(2)[3].kind = "text"
    /\ Replies(2)[1].kind = "fail"
    /\ Replies(2)[2].kind = "fail"

(***************************************************************************)
(* C2.  Fallback exhaustion: when every candidate's request throws or      *)
(* returns no text, the invocation fails with the "All AI models           *)
(* failed..." error; a callWithFallback call never makes more requests     *)
(* than there are candidates.                                              *)
(***************************************************************************)
LastErrorMessages ==
    {e.message : e \in ServiceErrors \cup {EmptyResponse}} \cup {"{}", "undefined"}

IsAllModelsFailed(e) ==
    /\ e.name = "Error"
    /\ \E m \in LastErrorMessages : e.message = "All AI models failed. Last error: " \o m

AllFailed(st) ==
    /\ cwf[st].modelsToTry # <<>>
    /\ Len(Replies(st)) = Len(cwf[st].modelsToTry)
    /\ \A j \in 1..Len(Replies(st)) : Replies(st)[j].kind = "fail"

C2_FallbackExhaustion ==
    \A st \in 1..2 :
        /\ Len(Calls(st)) <= Len(MODEL_PRIORITY)
        /\ Len(Calls(st)) <= Len(cwf[st].modelsToTry)
        /\ AllFailed(st) =>
              /\ pc = "failed"
              /\ cwf[st].status = "threw"
              /\ error # None
              /\ IsAllModelsFailed(error[1])
              /\ result = None

\* All four candidates of stage 2 have failed.
C2_Witness == AllFailed(2) /\ Len(Calls(2)) = 4 /\ pc = "failed"

(***************************************************************************)
(* C3.  Preference ordering: when the stored preferred model is an entry   *)
(* of MODEL_PRIORITY, the attempt order is that model, then the other      *)
(* entries of MODEL_PRIORITY in their original relative order.             *)
(***************************************************************************)
C3_PreferenceOrdering ==
    \A st \in 1..2 :
        LET pref == cwf[st].preferredModel
            order == cwf[st].modelsToTry
        IN  (order # <<>> /\ Truthy(pref) /\ pref[1] \in ModelIds) =>
                /\ Len(order) = Len(MODEL_PRIORITY)
                /\ order[1] = pref[1]
                /\ \A i \in 2..Len(order) : order[i] \in ModelIds \ {pref[1]}
                /\ \A i, j \in 2..Len(order) :
                      i < j => Position(order[i]) < Position(order[j])

\* The third entry is preferred: it is tried first, then entries 1, 2 and 4.
C3_Witness ==
    /\ cwf[1].preferredModel = Some(MODEL_PRIORITY[3])
    /\ cwf[1].modelsToTry =
          <<MODEL_PRIORITY[3], MODEL_PRIORITY[1], MODEL_PRIORITY[2], MODEL_PRIORITY[4]>>
    /\ Len(Calls(1)) = 1
    /\ Calls(1)[1].model = MODEL_PRIORITY[3]

(***************************************************************************)
(* C4.  No credential, no network: when the stored credential and the      *)
(* default credential are both absent, the invocation fails with the       *)
(* "Missing API Key..." error and the call makes no request.               *)
(***************************************************************************)
C4_NoCredentialNoNetwork ==
    \A st \in 1..2 :
        (cwf[st].status # "none" /\ cwf[st].userKey = None /\ envKey = None) =>
            /\ pc = "failed"
            /\ cwf[st].status = "threw"
            /\ error = Some(MissingCredential)
            /\ Calls(st) = <<>>
            /\ inFlight = {}

C4_Witness ==
    /\ cwf[1].status = "threw"
    /\ cwf[1].userKey = None
    /\ envKey = None
    /\ error = Some(MissingCredential)
    /\ Calls(1) = <<>>

Fenced(p) == p.lead # <<>> /\ p.trail # <<>>

C6_FencedParsesAsBare ==
    (pret # None /\ Fenced(ptext) /\ ~JSONParse(ptext.body).threw) =>
        pret[1] = JSONParse(ptext.body)

\* C6, where it does hold: the white space is between the fences and J only,
\* the opening fence starts the response and the closing fence ends it.
C6_FencedFlushParsesAsBare ==
    (pret # None /\ Fenced(ptext) /\ ptext.pre = <<>> /\ ptext.post = <<>>
        /\ ~JSONParse(ptext.body).threw) =>
        pret[1] = JSONParse(ptext.body)

C6_FlushWitness ==
    /\ pret # None
    /\ ptext.lead = Fence \o <<"J", "s", "o", "n">>
    /\ ptext.in1 = <<NL>>
    /\ ptext.body = SmallObject
    /\ ptext.in2 = <<NL>>
    /\ ptext.trail = Fence
    /\ ptext.pre = <<>>
    /\ ptext.post = <<>>
    /\ pret[1] = Return(ObjV(<<<<"a">>>>, <<NumV(1)>>))

(***************************************************************************)
(* C7.  Truncation: a reference text longer than 15,000 characters is      *)
(* embedded in the stage-1 prompt as exactly its first 15,000 characters,  *)
(* a matrix or specification text longer than 5,000 characters as exactly  *)
(* its first 5,000; a shorter input is embedded unchanged.                 *)
(***************************************************************************)
\* e is exactly the first n characters of t.
IsFirst(e, t, n) == e.len = n /\ n <= t.len /\ \A i \in 1..n : CharAt(e, i) = CharAt(t, i)

Capped(input, limit, embedded) ==
    input # None =>
        IF input[1].len > limit
        THEN IsFirst(embedded, input[1], limit)
        ELSE TextEq(embedded, input[1])

\* The claim as made.
C7_TruncationAsClaimed ==
    step1Prompt # None =>
        /\ Capped(config.referenceContent, RefLimit, step1Prompt[1].ref)
        /\ Capped(config.matrixContent, MatrixLimit, step1Prompt[1].matrix)
        /\ Capped(config.specificationContent, SpecLimit, step1Prompt[1].spec)

\* C7 as amended: an empty reference text is embedded as the word None.
C7_Truncation ==
    step1Prompt # None =>
        /\ IF config.referenceContent # None /\ config.referenceContent[1].len = 0
           THEN TextEq(step1Prompt[1].ref, NoneText)
           ELSE Capped(config.referenceContent, RefLimit, step1Prompt[1].ref)
        /\ Capped(config.matrixContent, MatrixLimit, step1Prompt[1].matrix)
        /\ Capped(config.specificationContent, SpecLimit, step1Prompt[1].spec)

\* All three inputs are one character over their limits.
C7_Witness ==
    /\ step1Prompt # None
    /\ config.referenceContent = Some(Text(RefLimit + 1))
    /\ config.matrixContent = Some(Text(MatrixLimit + 1))
    /\ config.specificationContent = Some(Text(SpecLimit + 1))
    /\ step1Prompt[1].ref.len = RefLimit
    /\ step1Prompt[1].matrix.len = MatrixLimit
    /\ step1Prompt[1].spec.len = SpecLimit

(***************************************************************************)
(* C8.  Progress: the callback is called at most twice; the "Step 1/2"     *)
(* message comes before every request; the "Step 2/2" message comes only   *)
(* after stage 1 returned a plan and before every request of stage 2; an   *)
(* invocation that succeeds has emitted exactly the two messages, in that  *)
(* order.  (Without a callback no message is emitted.)                     *)
(***************************************************************************)
Before(i, e) == \E j \in 1..(i - 1) : trace[j] = e

C8_ProgressOrder ==
    /\ Len(progress) <= 2
    /\ Len(progress) >= 1 => progress[1] = Step1Msg
    /\ Len(progress) = 2 => progress[2] = Step2Msg
    /\ Len(Filter(trace, "progress", 1)) + Len(Filter(trace, "progress", 2)) = Len(progress)
    /\ onProgress = "none" => progress = <<>>
    /\ \A i \in 1..Len(trace) :
          /\ (trace[i].ev = "call" /\ onProgress # "none") => Before(i, ProgressEv(1))
          /\ (IsCall(trace[i], 2) /\ onProgress # "none") => Before(i, ProgressEv(2))
          /\ trace[i] = ProgressEv(2) =>
                /\ plan # None
                /\ Before(i, ProgressEv(1))
                /\ \E j \in 1..(i - 1) : IsReply(trace[j], 1) /\ trace[j].kind = "text"
    /\ (pc = "done" /\ onProgress # "none") => progress = <<Step1Msg, Step2Msg>>

C8_Witness == pc = "done" /\ onProgress = "ok" /\ progress = <<Step1Msg, Step2Msg>>

(***************************************************************************)
(* C9.  One request at a time: no request of stage 2 is issued unless      *)
(* stage 1 returned; within a stage a candidate is tried only after the    *)
(* one before it has settled; at most one request is in flight.            *)
(***************************************************************************)
C9_OneRequestAtATime ==
    /\ Cardinality(inFlight) <= 1
    /\ \A i \in 1..Len(trace) :
          /\ IsCall(trace[i], 2) =>
                /\ plan # None
                /\ \E j \in 1..(i - 1) : IsReply(trace[j], 1) /\ trace[j].kind = "text"
          /\ \A j \in (i + 1)..Len(trace) :
                (trace[i].ev = "call" /\ trace[j].ev = "call") =>
                    \E k \in (i + 1)..(j - 1) :
                        /\ trace[k].ev = "reply"
                        /\ trace[k].stage = trace[i].stage
                        /\ trace[k].model = trace[i].model
    /\ \A st \in 1..2 :
          Len(Calls(st)) - Len(Replies(st)) = Cardinality({r \in inFlight : r.stage = st})

\* Stage 2 is on its second candidate, whose request is in flight.
C9_Witness ==
    /\ pc = "await2"
    /\ Len(Calls(2)) = 2
    /\ Len(Replies(2)) = 1
    /\ Cardinality(inFlight) = 1

(***************************************************************************)
(* C10.  State machine: an invocation goes Idle -> AnalyzingPlan ->        *)
(* SynthesizingContent -> Done, or from a stage straight to Failed; Done   *)
(* is reached only when stage 1, stage 2 and the parsing succeeded; Done   *)
(* and Failed are final and exclude each other; a stage is not run again;  *)
(* an invocation that failed has an error and no value.                    *)
(***************************************************************************)
Paths ==
    {<<>>,
     <<"AnalyzingPlan">>,
     <<"AnalyzingPlan", "Failed">>,
     <<"AnalyzingPlan", "SynthesizingContent">>,
     <<"AnalyzingPlan", "SynthesizingContent", "Done">>,
     <<"AnalyzingPlan", "SynthesizingContent", "Failed">>}

Phase ==
    CASE pc = "idle" -> "Idle"
      [] pc = "await1" -> "AnalyzingPlan"
      [] pc = "await2" -> "SynthesizingContent"
      [] pc = "done" -> "Done"
      [] pc = "failed" -> "Failed"

C10_StateMachine ==
    /\ Phases \in Paths
    /\ Phase = IF Phases = <<>> THEN "Idle" ELSE Phases[Len(Phases)]
    /\ pc \in {"done", "failed"} =>
          /\ trace[Len(trace)] = PhaseEv(Phase)
          /\ inFlight = {}
    /\ pc = "done" =>
          /\ cwf[1].status = "returned" /\ plan # None
          /\ cwf[2].status = "returned" /\ finalResponse # None
          /\ ~JSONParse(Cleaned(finalResponse[1])).threw
          /\ result = Some(JSONParse(Cleaned(finalResponse[1])).value)
          /\ error = None
    /\ pc = "failed" => error # None
    /\ pc # "done" => result = None
    /\ \A i \in 1..Len(trace) : \A j \in (i + 1)..Len(trace) :
          /\ ~(trace[i].stage = 2 /\ trace[j].stage = 1)
          /\ (trace[i].ev = "call" /\ trace[j].ev = "call" /\ trace[i].stage = trace[j].stage)
                => trace[i].model # trace[j].model

\* Stage 2 failed after stage 1 had returned its plan: an error and no value.
C10_Witness ==
    /\ pc = "failed"
    /\ Phases = <<"AnalyzingPlan", "SynthesizingContent", "Failed">>
    /\ plan # None
    /\ cwf[2].status = "threw"
    /\ result = None

(***************************************************************************)
(* C11.  When every candidate has failed, the message of the "All AI       *)
(* models failed" error embeds the message of the failure of the last      *)
(* candidate attempted: the message of what its request threw, or the      *)
(* JSON serialization of what it threw when that has no message, or        *)
(* "Empty response from AI" when its request returned no text.             *)
(***************************************************************************)
LastFailureMessage(f) ==
    IF f.kind = "empty" THEN "Empty response from AI"
    ELSE IF f.thrown.message # "" THEN f.thrown.message
    ELSE Stringify(f.thrown)

C11_LastErrorEmbedded ==
    \A st \in 1..2 :
        AllFailed(st) =>
            /\ lastFailure[st] # None
            /\ error # None
            /\ error[1].message =
                  "All AI models failed. Last error: " \o LastFailureMessage(lastFailure[st][1])

\* Stage 2 is exhausted; the last candidate threw an error without a message
\* after the first three had failed.
C11_Witness ==
    /\ AllFailed(2)
    /\ pc = "failed"
    /\ lastFailure[2][1].kind = "throw"
    /\ lastFailure[2][1].thrown.message = ""
    /\ error[1].message = "All AI models failed. Last error: {}"

(***************************************************************************)
(* C12.  As claimed: every value generateExam returns has the ExamData     *)
(* shape (an object with a string examTitle, a string duration, a content  *)
(* array and an answers array); valid JSON of another shape is never       *)
(* returned.                                                               *)
(***************************************************************************)
HasMember(v, k, type) ==
    \E m \in 1..Len(v.keys) : v.keys[m] = k /\ v.items[m].t = type

IsExamData(v) ==
    /\ v.t = "obj"
    /\ HasMember(v, KeyExamTitle, "str")
    /\ HasMember(v, KeyDuration, "str")
    /\ HasMember(v, KeyContent, "arr")
    /\ HasMember(v, KeyAnswers, "arr")

C12_ExamDataShape == result # None => IsExamData(result[1])

\* C12 as amended: once stage 2 has answered, generateExam returns the value
\* JSON.parse gives for the cleaned answer, whatever its shape, and fails
\* only when the cleaned answer is not JSON.
C12_ParsedValueReturned ==
    /\ result # None => pc = "done" /\ finalResponse # None
    /\ finalResponse # None =>
          LET r == ParseCleaned(finalResponse[1])
          IN  IF r.threw
              THEN pc = "failed" /\ result = None
              ELSE pc = "done" /\ result = Some(r.value)

\* The answer null was returned as the exam.
C12_Witness ==
    /\ pc = "done"
    /\ finalResponse = Some(<<"n", "u", "l", "l">>)
    /\ result = Some(NullV)
    /\ ~IsExamData(result[1])

\* An answer of the ExamData shape is returned as an exam.
C12_ShapedWitness == pc = "done" /\ result # None /\ IsExamData(result[1])

(***************************************************************************)
(* C13.  When the callWithFallback call of stage 1 throws (no credential,  *)
(* or every candidate failed), generateExam rejects with that very error,  *)
(* the "Step 2/2" message is never sent to the callback and no request of  *)
(* stage 2 is made.                                                        *)
(***************************************************************************)
Stage1Error ==
    IF ~Truthy(cwf[1].apiKey) THEN MissingCredential ELSE AllModelsFailed(cwf[1].lastError)

C13_Stage1FailurePropagates ==
    cwf[1].status = "threw" =>
        /\ pc = "failed"
        /\ error = Some(Stage1Error)
        /\ result = None
        /\ \A i \in 1..Len(progress) : progress[i] # Step2Msg
        /\ \A i \in 1..Len(trace) : ~(trace[i].ev = "progress" /\ trace[i].stage = 2)
        /\ Calls(2) = <<>>
        /\ cwf[2].status = "none"
        /\ plan = None
        /\ step2Prompt = None

\* Every candidate of stage 1 failed, a callback being given.
C13_Witness ==
    /\ cwf[1].status = "threw"
    /\ AllFailed(1)
    /\ onProgress = "ok"
    /\ progress = <<Step1Msg>>
    /\ pc = "failed"

(***************************************************************************)
(* C14.  In every callWithFallback call: when the stored key read at its   *)
(* start is a non-empty string, every request of the call carries it; the  *)
(* default process.env.API_KEY is carried only when there is no stored     *)
(* key; the missing-key error is thrown exactly when there is neither.     *)
(***************************************************************************)
MissingKeyRaised(st) ==
    cwf[st].status = "threw" /\ ~AllFailed(st) /\ error = Some(MissingCredential)

C14_CredentialPreference ==
    \A st \in 1..2 :
        cwf[st].status # "none" =>
            /\ Truthy(cwf[st].userKey) =>
                  /\ \A j \in 1..Len(Calls(st)) : Calls(st)[j].key = cwf[st].userKey[1]
                  /\ Calls(st) # <<>>
            /\ ~Truthy(cwf[st].userKey) =>
                  \A j \in 1..Len(Calls(st)) :
                      Truthy(envKey) /\ Calls(st)[j].key = envKey[1]
            /\ MissingKeyRaised(st) <=> (~Truthy(cwf[st].userKey) /\ ~Truthy(envKey))

\* Both credentials exist and stage 2 has made two requests with the stored one.
C14_Witness ==
    /\ Truthy(envKey)
    /\ Truthy(cwf[2].userKey)
    /\ Len(Calls(2)) >= 2
    /\ \A j \in 1..Len(Calls(2)) : Calls(2)[j].key = cwf[2].userKey[1] /\ Calls(2)[j].key # envKey[1]

\* Only the default exists and it is the one used.
C14_DefaultWitness ==
    /\ cwf[1].userKey = None
    /\ Len(Calls(1)) >= 2
    /\ \A j \in 1..Len(Calls(1)) : Calls(1)[j].key = "ENV"

(***************************************************************************)
(* C15.  As claimed: the rule injected is the one stored under             *)
(* config.level when the level is exactly Primary, Middle School or High   *)
(* School, the Middle School rule for every other level, and the two       *)
(* prompts embed the same rule.                                            *)
(***************************************************************************)
RuleKeys == {"Primary", "Middle School", "High School"}

RuleByExactKey(level) ==
    IF level \in RuleKeys THEN DIFFICULTY_RULES[level] ELSE DIFFICULTY_RULES["Middle School"]

SameRuleInBothPrompts ==
    step1Prompt # None /\ step2Prompt # None =>
        step2Prompt[1].systemInstruction = step1Prompt[1].systemInstruction

C15_RuleByExactKey ==
    /\ step1Prompt # None =>
          step1Prompt[1].systemInstruction.difficultyRule = RuleByExactKey(config.level)
    /\ SameRuleInBothPrompts

\* What the code does: the claim holds for the levels that do not name a
\* member inherited from Object.prototype; for those that do, what is
\* injected is no rule text at all.
C15_RuleExceptInherited ==
    /\ step1Prompt # None =>
          IF config.level \in ObjectPrototypeMembers
          THEN \A k \in RuleKeys :
                   step1Prompt[1].systemInstruction.difficultyRule # DIFFICULTY_RULES[k]
          ELSE step1Prompt[1].systemInstruction.difficultyRule = RuleByExactKey(config.level)
    /\ SameRuleInBothPrompts

\* An unknown level took the Middle School rule in both prompts.
C15_FallbackWitness ==
    /\ config.level = "University"
    /\ step2Prompt # None
    /\ step2Prompt[1].systemInstruction.difficultyRule = "RULE_MIDDLE_SCHOOL"
    /\ step1Prompt[1].systemInstruction.difficultyRule = "RULE_MIDDLE_SCHOOL"

(***************************************************************************)
(* C16.  As claimed: each of the four optional texts is embedded in the    *)
(* stage-1 prompt with a length bounded by a fixed maximum, whatever the   *)
(* length of the input; the largest limit of the code is 15000.            *)
(***************************************************************************)
LargestLimit == Max(RefLimit, Max(MatrixLimit, SpecLimit))

ThreeInputsCapped ==
    /\ step1Prompt[1].matrix.len <= MatrixLimit
    /\ step1Prompt[1].spec.len <= SpecLimit
    /\ step1Prompt[1].ref.len <= RefLimit

C16_AllInputsCapped ==
    step1Prompt # None =>
        /\ ThreeInputsCapped
        /\ step1Prompt[1].structure.len <= LargestLimit

\* What the code does: matrix, specification and reference are cut, the
\* structure text is embedded whole.
C16_StructureEmbeddedWhole ==
    step1Prompt # None =>
        /\ ThreeInputsCapped
        /\ (config.structureContent # None /\ config.structureContent[1].len > 0) =>
              TextEq(step1Prompt[1].structure, config.structureContent[1])

\* A structure text longer than every limit is in the prompt in full.
C16_WholeWitness ==
    /\ step1Prompt # None
    /\ config.structureContent # None
    /\ config.structureContent[1].len > LargestLimit
    /\ step1Prompt[1].structure.len = config.structureContent[1].len

(***************************************************************************)
(* C17.  Whatever the failure of a candidate (any thrown error, an         *)
(* invalid-key error included, or an empty text), the loop goes on to the  *)
(* next candidate; the requests of a call go to the candidates of the      *)
(* resolved order, in order, each at most once; when the call throws the   *)
(* "All AI models failed" error every candidate was tried exactly once.    *)
(***************************************************************************)
Exhausted(st) == cwf[st].status = "threw" /\ Truthy(cwf[st].apiKey)

C17_UnconditionalFallback ==
    \A st \in 1..2 :
        /\ \A j \in 1..Len(Replies(st)) :
              (Replies(st)[j].kind = "fail" /\ j < Len(cwf[st].modelsToTry)) =>
                  Len(Calls(st)) >= j + 1
        /\ \A j \in 1..Len(Calls(st)) : Calls(st)[j].model = cwf[st].modelsToTry[j]
        /\ \A i, j \in 1..Len(Calls(st)) : i # j => Calls(st)[i].model # Calls(st)[j].model
        /\ Exhausted(st) =>
              /\ Len(Calls(st)) = Len(cwf[st].modelsToTry)
              /\ Len(Calls(st)) = Len(MODEL_PRIORITY)
              /\ Len(Replies(st)) = Len(Calls(st))
              /\ \A j \in 1..Len(Replies(st)) : Replies(st)[j].kind = "fail"

\* The first candidate of stage 1 was refused for its key and the second is
\* being tried.
C17_Witness ==
    /\ pc = "await1"
    /\ Len(Replies(1)) = 1
    /\ Len(Calls(1)) = 2
    /\ lastFailure[1] # None
    /\ lastFailure[1][1].kind = "throw"
    /\ lastFailure[1][1].thrown.message = "401 API key not valid"

\* A call is exhausted after four failures ending with an empty text.
C17_ExhaustedWitness ==
    /\ Exhausted(2)
    /\ Len(Calls(2)) = 4
    /\ lastFailure[2][1].kind = "empty"

(***************************************************************************)
(* C18.  When every request settles, an invocation of generateExam ends    *)
(* done or failed, having made at most as many requests in each stage as   *)
(* there are candidates, hence at most twice that many in all.             *)
(***************************************************************************)
Terminal == pc \in {"done", "failed"}

CallsBounded ==
    /\ \A st \in 1..2 : Len(Calls(st)) <= Len(MODEL_PRIORITY)
    /\ Len(Calls(1)) + Len(Calls(2)) <= 2 * Len(MODEL_PRIORITY)

C18_Terminates == [](CallsBounded) /\ ((pc # "idle") ~> Terminal)

\* An invocation ended after eight requests, four in each stage.
C18_Witness ==
    /\ Terminal
    /\ Len(Calls(1)) = Len(MODEL_PRIORITY)
    /\ Len(Calls(2)) = Len(MODEL_PRIORITY)
    /\ Len(Replies(1)) + Len(Replies(2)) = 2 * Len(MODEL_PRIORITY)

(***************************************************************************)
(* C19.  What the progress callback throws is not caught: when it throws   *)
(* at the first notification the invocation fails with that exception and *)
(* no request is made at all; when it throws at the second notification    *)
(* the invocation fails with it after stage 1 has returned, and no request *)
(* of stage 2 is made.                                                     *)
(***************************************************************************)
C19_CallbackFailureEscapes ==
    /\ (onProgress = "throw1" /\ pc # "idle") =>
          /\ pc = "failed"
          /\ error = Some(CallbackError)
          /\ result = None
          /\ progress = <<Step1Msg>>
          /\ Calls(1) = <<>> /\ Calls(2) = <<>>
          /\ inFlight = {}
          /\ cwf[1].status = "none" /\ cwf[2].status = "none"
    /\ (onProgress = "throw2" /\ plan # None) =>
          /\ pc = "failed"
          /\ error = Some(CallbackError)
          /\ result = None
          /\ progress = <<Step1Msg, Step2Msg>>
          /\ cwf[1].status = "returned"
          /\ Calls(2) = <<>>
          /\ inFlight = {}
          /\ cwf[2].status = "none"

\* The callback threw at the second notification, stage 1 having returned
\* at its second candidate.
C19_Witness ==
    /\ onProgress = "throw2"
    /\ plan # None
    /\ Len(Calls(1)) = 2
    /\ pc = "failed"
    /\ error = Some(CallbackError)

\* The callback threw at the first notification.
C19_FirstWitness == onProgress = "throw1" /\ pc = "failed" /\ trace # <<>>

(***************************************************************************)
(* C20.  Each of the two callWithFallback calls of an invocation resolves  *)
(* the credential and the attempt order from what is stored when the call  *)
(* starts: the first request of stage 2 carries the key stored at that     *)
(* moment and goes to the first model of the order given by the preference *)
(* stored at that moment, whatever stage 1 used; with no key stored any    *)
(* more and no default, stage 2 fails with the missing-key error and makes *)
(* no request.                                                             *)
(***************************************************************************)
\* The step in which the call of the given stage starts.
Starts(st) ==
    IF st = 1
    THEN pc = "idle" /\ pc' # "idle" /\ ~CallbackThrows(onProgress', 1)
    ELSE pc = "await1" /\ plan' # None /\ ~CallbackThrows(onProgress, 2)

ResolvedAfresh(st) ==
    LET key == IF Truthy(storedKey) THEN storedKey ELSE envKey
        order == ResolveModels(storedModel)
    IN  /\ cwf'[st].userKey = storedKey
        /\ IF Truthy(key)
           THEN /\ pc' = Await(st)
                /\ cwf'[st].apiKey = key
                /\ cwf'[st].modelsToTry = order
                /\ trace'[Len(trace')] = CallEv(st, order[1], key[1])
                /\ inFlight' = {Request(st, order[1], key[1])}
           ELSE /\ pc' = "failed"
                /\ error' = Some(MissingCredential)
                /\ \A i \in 1..Len(trace') : ~IsCall(trace'[i], st)
                /\ inFlight' = {}

C20_ResolvedPerCall == [][\A st \in 1..2 : Starts(st) => ResolvedAfresh(st)]_vars

\* The settings were saved during stage 1: stage 2 uses the new key and
\* starts with the newly preferred model, stage 1 used the old ones.
C20_Witness ==
    /\ cwf[1].apiKey = Some("K1")
    /\ cwf[2].apiKey = Some("K2")
    /\ cwf[1].modelsToTry[1] # MODEL_PRIORITY[2]
    /\ cwf[2].modelsToTry[1] = MODEL_PRIORITY[2]
    /\ Len(Calls(1)) >= 1
    /\ Len(Calls(2)) >= 1
    /\ Calls(1)[1].key = "K1"
    /\ Calls(2)[1].key = "K2"
    /\ Calls(2)[1].model = MODEL_PRIORITY[2]

\* The stored key went away during stage 1: stage 2 fails without a request.
C20_AbsentWitness ==
    /\ cwf[1].status = "returned"
    /\ Len(Calls(1)) >= 1
    /\ cwf[2].status = "threw"
    /\ error = Some(MissingCredential)
    /\ Calls(2) = <<>>

(***************************************************************************)
(* C21.  No step of generateExam or callWithFallback, on any path, changes *)
(* the stored key or the stored preference: every step that adds an event  *)
(* to the invocation's trace (each step of the two functions does) leaves  *)
(* both as they were.                                                      *)
(***************************************************************************)
CoreStep == trace' # trace \/ pc' # pc \/ cwf' # cwf

C21_StorageOnlyRead ==
    [][CoreStep => (storedKey' = storedKey /\ storedModel' = storedModel)]_vars

\* An invocation is done, answered by another model than the preferred one,
\* and the settings are the ones it started with.
C21_Witness ==
    /\ pc = "done"
    /\ Len(Calls(1)) >= 2
    /\ Len(Calls(2)) >= 2
    /\ storedKey = Some("K1")
    /\ storedModel = Some(MODEL_PRIORITY[3])
    /\ cwf[1].userKey = storedKey /\ cwf[2].userKey = storedKey
    /\ cwf[1].preferredModel = storedModel /\ cwf[2].preferredModel = storedModel

(***************************************************************************)
(* C22.  Whatever the stored preference (absent, empty, an identifier that *)
(* is not listed, a listed one), the order of a call holds every model of  *)
(* MODEL_PRIORITY exactly once and nothing else; with a preference that is *)
(* absent, empty or not listed it is MODEL_PRIORITY itself, and no request *)
(* names a model that is not listed.                                       *)
(***************************************************************************)
IsPermutation(order, of) ==
    /\ Len(order) = Len(of)
    /\ \A i \in 1..Len(of) : \E j \in 1..Len(order) : order[j] = of[i]
    /\ \A i, j \in 1..Len(order) : i # j => order[i] # order[j]

Listed(pref) == pref # None /\ \E i \in 1..Len(MODEL_PRIORITY) : MODEL_PRIORITY[i] = pref[1]

C22_OrderIsPermutation ==
    \A st \in 1..2 :
        /\ cwf[st].modelsToTry # <<>> =>
              /\ IsPermutation(cwf[st].modelsToTry, MODEL_PRIORITY)
              /\ ~Listed(cwf[st].preferredModel) => cwf[st].modelsToTry = MODEL_PRIORITY
        /\ \A j \in 1..Len(Calls(st)) :
              /\ Listed(Some(Calls(st)[j].model))
              /\ Calls(st)[j].model # StaleModel

\* The preference is an identifier that is not listed and all four listed
\* models were tried, in the order of MODEL_PRIORITY.
C22_Witness ==
    /\ cwf[1].preferredModel = Some(StaleModel)
    /\ Len(Calls(1)) = Len(MODEL_PRIORITY)
    /\ \A j \in 1..Len(Calls(1)) : Calls(1)[j].model = MODEL_PRIORITY[j]

\* The preference is the last listed model: it is tried first and the order
\* is still a permutation.
C22_ListedWitness ==
    /\ cwf[1].preferredModel = Some(MODEL_PRIORITY[4])
    /\ Len(Calls(1)) = Len(MODEL_PRIORITY)
    /\ Calls(1)[1].model = MODEL_PRIORITY[4]
    /\ Calls(1)[4].model = MODEL_PRIORITY[3]

(***************************************************************************)
(* C23.  As claimed: in App at most one handleGenerate call awaits its     *)
(* generateExam at any time, and the exam shown in the RESULT view comes   *)
(* from the call started last.                                             *)
(***************************************************************************)
Awaiting == {id \in 1..Len(gens) : gens[id].state # "settled"}

C23_OneGenerationAtATime ==
    /\ Cardinality(Awaiting) <= 1
    /\ view = "RESULT" => shownFrom = Len(gens)

\* What the code allows: the logo brings the form back during LOADING, a
\* second call is started, and the first call's exam, arriving last,
\* replaces the exam of the second one.
C23_StaleExamShown ==
    /\ Len(gens) >= 2
    /\ gens[1].outcome = "resolved"
    /\ gens[2].outcome = "resolved"
    /\ view = "RESULT"
    /\ shownFrom = 1

\* No call is started while the LOADING or the RESULT view is shown: the
\* form is rendered in the INPUT view only.
C23_StartedFromInputOnly == [][Len(gens') > Len(gens) => view = "INPUT"]_vars

(***************************************************************************)
(* C24.  As claimed: whenever the view is RESULT, examData is not null.    *)
(***************************************************************************)
C24_ResultHasExam == view = "RESULT" => examData # NullV

\* What the code guarantees: the RESULT view is entered only by a call whose
\* generateExam resolved, with whatever value it resolved with.
C24_ResultFromResolvedCall ==
    view = "RESULT" =>
        /\ shownFrom \in 1..Len(gens)
        /\ gens[shownFrom].outcome = "resolved"
        /\ \E t \in AppResponses : examData = ParseCleaned(t).value

\* An answer that is an array is kept and the RESULT view shown.
C24_ArrayShown == view = "RESULT" /\ examData = ArrV(<<>>)

(***************************************************************************)
(* C25.  In handleGenerate, when generateExam rejects the view becomes     *)
(* INPUT, error is set to a non-empty message and examData is left as it   *)
(* was; when it resolves the view becomes RESULT and examData is the value *)
(* it resolved with; when no call is awaiting any more the view is not     *)
(* LOADING.                                                                *)
(***************************************************************************)
\* Call id settles in this step.
Settles(id) ==
    /\ gens'[id].state = "settled"
    /\ id <= Len(gens) => gens[id].state # "settled"

SettledAsHandled(id) ==
    IF gens'[id].outcome = "rejected"
    THEN /\ view' = "INPUT"
         /\ appError' # None
         /\ appError'[1] # ""
         /\ examData' = examData
         /\ shownFrom' = shownFrom
    ELSE /\ view' = "RESULT"
         /\ shownFrom' = id
         /\ \E t \in AppResponses :
               ~ParseCleaned(t).threw /\ examData' = ParseCleaned(t).value

C25_ResolvedWitness ==
    /\ Len(gens) = 1
    /\ gens[1].outcome = "resolved"
    /\ view = "RESULT"
    /\ IsExamData(examData)

====
